---- MODULE Spec2Model ----
(***************************************************************************)
(* Model of warp_compress.c: compress_hybrid and decompress_hybrid, the    *)
(* blocked LZ4 codec with OpenMP-parallel block loops.                     *)
(*                                                                         *)
(* Bytes are naturals 0..255; a buffer is a sequence of bytes in which     *)
(* UNINIT marks a byte that was allocated and never written.  C offsets    *)
(* are 0-based, sequences 1-based: byte at C offset k is buf[k + 1].       *)
(* Header fields are written with memcpy of a uint32_t, modelled as the    *)
(* 4 little-endian bytes of the value (the byte order of the build).       *)
(*                                                                         *)
(* Each parallel loop is a set of pending iterations and a team of         *)
(* threads; a thread takes any pending iteration, works on it and, on      *)
(* failure, enters the critical section in a later step.  Every            *)
(* allocation may fail.  The Python error indicator is the one indicator   *)
(* of the calling thread's state, which all threads of the team set and    *)
(* test inside the critical section.  A call of compress_hybrid is         *)
(* followed by a call of decompress_hybrid on the stream returned or on    *)
(* an altered copy of it.                                                  *)
(***************************************************************************)
EXTENDS Integers, Naturals, Sequences, FiniteSets, TLC

\* ---- program constants --------------------------------------------------
MAX_BLOCK_SIZE == 536870912
HEADER_SIZE == 8
\* decompress_hybrid starts the index at 1024 entries; the model starts it
\* at 2 so that the doubling branch is reached by streams of three frames.
INDEX_CAPACITY == 2

\* ---- bounds of the model ------------------------------------------------
MaxLen == 4
MaxBlock == 3
MaxBlocks == 3
NumWorkers == 2
\* Memory of the model: an allocation of more than MaxAlloc elements fails.
MaxAlloc == 48

UNINIT == -1
Workers == 1..NumWorkers

\* ---- byte buffers -------------------------------------------------------
RECURSIVE SeqsUpTo(_, _)
SeqsUpTo(S, n) ==
    IF n = 0 THEN {<<>>}
    ELSE LET prev == SeqsUpTo(S, n - 1)
         IN prev \cup {Append(s, x) : s \in {t \in prev : Len(t) = n - 1}, x \in S}

Alloc(n) == [k \in 1..n |-> UNINIT]

\* Whether an allocation of n elements succeeds: it may always fail, and it
\* fails when n exceeds the memory of the model (an altered stream can
\* declare an output of many megabytes).
AllocOutcomes(n) == IF n > MaxAlloc THEN {FALSE} ELSE BOOLEAN

\* memcpy(dst + off, src, n): the first n bytes of src over dst[off..off+n).
\* Only bytes that land inside dst and come from inside src are copied.
memcpy(dst, off, src, n) ==
    [k \in 1..Len(dst) |->
        IF k > off /\ k <= off + n /\ k - off <= Len(src) THEN src[k - off] ELSE dst[k]]

\* The bytes of a uint32_t as memcpy(&x, 4) lays them out (little-endian).
U32Bytes(v) ==
    << v % 256, (v \div 256) % 256, (v \div 65536) % 256, (v \div 16777216) % 256 >>

\* memcpy(&x, buf + off, 4) for a uint32_t x.
ReadU32(buf, off) ==
    buf[off + 1] + 256 * buf[off + 2] + 65536 * buf[off + 3] + 16777216 * buf[off + 4]

\* ---- the single-block codec (external collaborator) ---------------------
\* LZ4 itself is not part of the repository.  It is modelled by a run-length
\* codec with the same contract: compress is deterministic, never needs more
\* than LZ4_compressBound bytes, returns 0 when the destination is too small;
\* decompress returns the decoded size, or a negative value when the source
\* is malformed or the result does not fit the destination capacity.
LZ4_compressBound(n) == 2 * n

RECURSIVE RunLen(_)
RunLen(s) ==
    IF Len(s) <= 1 THEN Len(s)
    ELSE IF s[2] = s[1] THEN 1 + RunLen(Tail(s)) ELSE 1

RECURSIVE RleEncode(_)
RleEncode(s) ==
    IF s = <<>> THEN <<>>
    ELSE LET n == RunLen(s)
         IN <<n, s[1]>> \o RleEncode(SubSeq(s, n + 1, Len(s)))

\* [size, data]: the return value and the bytes left in the destination.
LZ4_compress_default(src, dstCapacity) ==
    LET c == RleEncode(src)
    IN IF Len(c) > dstCapacity
       THEN [size |-> 0, data |-> <<>>]
       ELSE [size |-> Len(c), data |-> c]

RECURSIVE RleDecode(_, _)
\* Decodes pairs <<count, byte>>; data is what was written before stopping.
RleDecode(src, cap) ==
    IF src = <<>> THEN [ok |-> TRUE, data |-> <<>>]
    ELSE IF Len(src) = 1 \/ src[1] <= 0 \/ src[2] < 0 THEN [ok |-> FALSE, data |-> <<>>]
    ELSE IF src[1] > cap THEN [ok |-> FALSE, data |-> [k \in 1..cap |-> src[2]]]
    ELSE LET rest == RleDecode(SubSeq(src, 3, Len(src)), cap - src[1])
         IN [ok |-> rest.ok, data |-> [k \in 1..src[1] |-> src[2]] \o rest.data]

LZ4_decompress_safe(src, dstCapacity) ==
    LET d == RleDecode(src, dstCapacity)
    IN IF src = <<>> \/ ~d.ok
       THEN [size |-> -1, data |-> d.data]
       ELSE [size |-> Len(d.data), data |-> d.data]

\* ---- state ---------------------------------------------------------------
VARIABLES
    fn,                      \* the function being executed
    pc,                      \* position of the calling thread in it
    input,                   \* Py_buffer input: the bytes of the argument
    block_size,              \* compress_hybrid: the block_size argument
    num_blocks,
    results,                 \* BlockResult array (results[i] is results[i + 1] here)
    total_comp_size,
    output,                  \* compress_hybrid: the bytes object being filled
    out_offset,
    loop_i,                  \* i of the sequential writer loop
    pending,                 \* iterations of the parallel loop not yet handed out
    wpc, wi, wsum, wbuf,     \* per worker: position, iteration, private sum, scratch
    status,                  \* per iteration of the parallel loop: what became of it
    pyerr,                   \* the Python error indicator
    in_offset,
    total_uncompressed_size,
    index,                   \* BlockIndex array (index[i] is index[i + 1] here)
    index_capacity,
    out,                     \* decompress_hybrid: the bytes object being filled
    error_flag,
    ret,                     \* what the call returned
    heap,                    \* acquire/release counts of the view and the arrays
    reads,                   \* input offsets the index pass has read
    orig,                    \* the bytes first given to compress_hybrid
    tampered,                \* whether the stream being decoded was altered
    sizes,                   \* the descriptors' sizes when compress_hybrid returned
    owner,                   \* per byte of out: the blocks whose task wrote it
    ooo                      \* a block settled while a lower one had not

cvars == <<block_size, results, total_comp_size, output, out_offset, loop_i>>
wvars == <<pending, wpc, wi, wsum, wbuf, status>>
dvars == <<in_offset, total_uncompressed_size, index, index_capacity, out, error_flag, reads>>
evars == <<orig, tampered>>
gvars == <<sizes, owner, ooo>>
vars == <<fn, pc, input, num_blocks, cvars, wvars, pyerr, dvars, ret, heap, evars, gvars>>

NoErr == [type |-> "none", msg |-> "", by |-> -1]
Err(t, m, b) == [type |-> t, msg |-> m, by |-> b]
PyErr_Occurred == pyerr.type # "none"

Pending == [kind |-> "pending", val |-> <<>>]
RetNULL == [kind |-> "NULL", val |-> <<>>]
RetBytes(b) == [kind |-> "bytes", val |-> b]

Heap0 == [view_acquired |-> 0, view_released |-> 0,
          array_allocs |-> 0, array_frees |-> 0]

\* A calloc'ed BlockResult; allocated says comp_buf is not NULL, comp_buf is
\* the whole allocation (its length is its capacity), freed counts free().
ZeroResult ==
    [offset_in |-> 0, orig_size |-> 0, comp_size |-> 0,
     comp_buf |-> <<>>, allocated |-> FALSE, freed |-> 0]

IdleWorkers ==
    /\ wpc = [w \in Workers |-> "idle"]
    /\ wi = [w \in Workers |-> 0]
    /\ wsum = [w \in Workers |-> 0]
    /\ wbuf = [w \in Workers |-> <<>>]

\* schedule(dynamic) with the default chunk of one iteration: a thread that
\* asks for work gets an iteration not yet handed out.  Neither the thread
\* that asks next nor the iteration it gets is determined.
Dispatch(todo) == todo

\* Iteration i (0-based) settles while a lower iteration has not.
Overtakes(st, i) == \E j \in 1..i : st[j] = "none"

RECURSIVE SumTo(_, _)
SumTo(f, n) == IF n = 0 THEN 0 ELSE f[n] + SumTo(f, n - 1)

\* ---- compress_hybrid ----------------------------------------------------
\* Lines 27-39: argument parsing (which acquires the view) and validation.
\* (variant: the ceiling itself rejected)
BlockSizeTooLarge_ge(bs) == bs >= MAX_BLOCK_SIZE
BlockSizeTooLarge(bs) == bs > MAX_BLOCK_SIZE
BlockSizeZero(bs) == bs = 0

compress_validate ==
    /\ fn = "compress_hybrid" /\ pc = "c_entry"
    /\ heap' = [heap EXCEPT !.view_acquired = @ + 1]
    /\ IF BlockSizeTooLarge(block_size)
       THEN /\ pyerr' = Err("ValueError", "exceeds MAX_BLOCK_SIZE", -1)
            /\ ret' = RetNULL /\ pc' = "done"
       ELSE IF BlockSizeZero(block_size)
       THEN /\ pyerr' = Err("ValueError", "Block size cannot be zero", -1)
            /\ ret' = RetNULL /\ pc' = "done"
       ELSE /\ pc' = "c_setup" /\ UNCHANGED <<pyerr, ret>>
    /\ UNCHANGED <<fn, input, num_blocks, cvars, wvars, dvars, evars, gvars>>

\* (variant: the quotient rounded down and one added)
NumBlocks_plus1(in_size, bs) == in_size \div bs + 1
\* Line 43.
NumBlocks(in_size, bs) == (in_size + bs - 1) \div bs

\* Lines 41-49: partition count and the calloc of the descriptor array.
compress_setup ==
    /\ fn = "compress_hybrid" /\ pc = "c_setup"
    /\ LET nb == NumBlocks(Len(input), block_size)
       IN \E calloc_ok \in AllocOutcomes(nb) :
            IF calloc_ok
            THEN /\ num_blocks' = nb
                 /\ results' = [k \in 1..nb |-> ZeroResult]
                 /\ total_comp_size' = 0
                 /\ pending' = 0..(nb - 1)
                 /\ status' = [k \in 1..nb |-> "none"]
                 /\ heap' = [heap EXCEPT !.array_allocs = @ + 1]
                 /\ pc' = "c_loop"
                 /\ UNCHANGED <<pyerr, ret>>
            ELSE /\ num_blocks' = nb
                 /\ pyerr' = Err("MemoryError", "", -1)
                 /\ ret' = RetNULL /\ pc' = "done"
                 /\ UNCHANGED <<results, total_comp_size, pending, status, heap>>
    /\ UNCHANGED <<fn, input, block_size, output, out_offset, loop_i,
                   wpc, wi, wsum, wbuf, dvars, evars, gvars>>

\* Lines 53-54.
OffsetIn(i, bs) == i * bs
\* (variant: every block given the full block size)
OrigSize_full(i, bs, in_size) == bs
OrigSize(i, bs, in_size) ==
    IF OffsetIn(i, bs) + bs <= in_size THEN bs ELSE in_size - OffsetIn(i, bs)

\* Lines 52-70: a worker takes an iteration, records the block's range and
\* allocates the scratch buffer; a failed malloc leads to the critical section.
comp_start(w) ==
    /\ fn = "compress_hybrid" /\ pc = "c_loop" /\ wpc[w] = "idle"
    /\ \E i \in Dispatch(pending) :
         /\ pending' = pending \ {i}
         /\ wi' = [wi EXCEPT ![w] = i]
         /\ \E malloc_ok \in AllocOutcomes(LZ4_compressBound(
                                OrigSize(i, block_size, Len(input)))) :
              /\ results' = [results EXCEPT ![i + 1] =
                    [@ EXCEPT !.offset_in = OffsetIn(i, block_size),
                              !.orig_size = OrigSize(i, block_size, Len(input))]]
              /\ wbuf' = [wbuf EXCEPT ![w] =
                    IF malloc_ok
                    THEN Alloc(LZ4_compressBound(OrigSize(i, block_size, Len(input))))
                    ELSE <<>>]
              /\ wpc' = [wpc EXCEPT ![w] = IF malloc_ok THEN "work" ELSE "crit"]
    /\ UNCHANGED <<fn, pc, input, num_blocks, block_size, total_comp_size, output,
                   out_offset, loop_i, wsum, status, pyerr, dvars, ret, heap, evars, gvars>>

\* (variant: a result of exactly the original size kept as compressed)
KeepCompressed_le(comp_size, orig_size) == comp_size > 0 /\ comp_size <= orig_size
\* (variant: any positive result kept, whatever its size)
KeepCompressed_any(comp_size, orig_size) == comp_size > 0
\* Line 79: the compression result is kept.
KeepCompressed(comp_size, orig_size) == comp_size > 0 /\ comp_size < orig_size

\* Lines 72-89 for block i with scratch buffer buf; realloc_ok is whether the
\* shrinking realloc succeeded.
EncodeBlock(r, buf, data, realloc_ok) ==
    LET src == SubSeq(data, r.offset_in + 1, r.offset_in + r.orig_size)
        c == LZ4_compress_default(src, Len(buf))
        filled == memcpy(buf, 0, c.data, c.size)
    IN IF KeepCompressed(c.size, r.orig_size)
       THEN [r EXCEPT !.comp_size = c.size,
                      !.comp_buf = IF realloc_ok THEN SubSeq(filled, 1, c.size) ELSE filled,
                      !.allocated = TRUE]
       ELSE [r EXCEPT !.comp_size = r.orig_size,
                      !.comp_buf = memcpy(filled, 0, src, r.orig_size),
                      !.allocated = TRUE]

comp_work(w) ==
    /\ fn = "compress_hybrid" /\ pc = "c_loop" /\ wpc[w] = "work"
    /\ \E realloc_ok \in BOOLEAN :
         LET i == wi[w]
             r == EncodeBlock(results[i + 1], wbuf[w], input, realloc_ok)
         IN /\ results' = [results EXCEPT ![i + 1] = r]
            /\ wsum' = [wsum EXCEPT ![w] = @ + r.comp_size + HEADER_SIZE]
            /\ status' = [status EXCEPT ![i + 1] =
                  IF r.comp_size < r.orig_size THEN "compressed" ELSE "raw"]
    /\ wpc' = [wpc EXCEPT ![w] = "idle"]
    /\ wbuf' = [wbuf EXCEPT ![w] = <<>>]
    /\ wi' = [wi EXCEPT ![w] = 0]
    /\ UNCHANGED <<fn, pc, input, num_blocks, block_size, total_comp_size, output,
                   out_offset, loop_i, pending, pyerr, dvars, ret, heap, evars, sizes, owner>>
    /\ ooo' = (ooo \/ Overtakes(status, wi[w]))

\* (variant: the indicator set without looking at PyErr_Occurred)
SetErrorAlways(cur, new) == new
\* Lines 65-68 and 227-229: inside the critical section the indicator is set
\* only when no error is pending.
SetErrorOnce(cur, new) == IF cur.type = "none" THEN new ELSE cur

comp_critical(w) ==
    /\ fn = "compress_hybrid" /\ pc = "c_loop" /\ wpc[w] = "crit"
    /\ pyerr' = SetErrorOnce(pyerr, Err("MemoryError", "", wi[w]))
    /\ status' = [status EXCEPT ![wi[w] + 1] = "failed"]
    /\ wpc' = [wpc EXCEPT ![w] = "idle"]
    /\ wi' = [wi EXCEPT ![w] = 0]
    /\ UNCHANGED <<fn, pc, input, num_blocks, cvars, pending, wsum, wbuf,
                   dvars, ret, heap, evars, sizes, owner>>
    /\ ooo' = (ooo \/ Overtakes(status, wi[w]))

\* (variant: the barrier not passed once a block has failed)
AllSettled_nofail ==
    /\ pending = {} /\ \A w \in Workers : wpc[w] = "idle"
    /\ \A k \in 1..Len(status) : status[k] # "failed"
\* The implicit barrier ending the parallel loop, with reduction(+:total_comp_size).
AllSettled == pending = {} /\ \A w \in Workers : wpc[w] = "idle"

\* (variant: only the first thread's private copy reaches the shared total)
Reduce_master(ws) == ws[1]
\* Line 51, reduction(+:total_comp_size): the private copies are added up.
Reduce(ws) == SumTo(ws, NumWorkers)

comp_join ==
    /\ fn = "compress_hybrid" /\ pc = "c_loop" /\ AllSettled
    /\ total_comp_size' = total_comp_size + Reduce(wsum)
    /\ wsum' = [w \in Workers |-> 0]
    /\ pc' = "c_after"
    /\ UNCHANGED <<fn, input, num_blocks, block_size, results, output, out_offset,
                   loop_i, pending, wpc, wi, wbuf, status, pyerr, dvars, ret, heap, evars, gvars>>

\* (variant: the payload buffers left alone)
FreeAll_none(rs) == rs
\* free(results[i].comp_buf) for every i, then free(results).
FreeAll(rs) == [k \in 1..Len(rs) |-> [rs[k] EXCEPT !.freed = @ + 1]]

\* (variant: the error check after the loop left out)
EncodeFailed_never(err) == FALSE
\* Line 92: PyErr_Occurred() after the parallel loop.
EncodeFailed(err) == err.type # "none"

\* Lines 92-106: the error check after the loop and the output allocation.
compress_after_loop ==
    /\ fn = "compress_hybrid" /\ pc = "c_after"
    /\ IF EncodeFailed(pyerr)
       THEN /\ results' = FreeAll(results)
            /\ heap' = [heap EXCEPT !.array_frees = @ + 1]
            /\ ret' = RetNULL /\ pc' = "done"
            /\ UNCHANGED <<pyerr, output, out_offset, loop_i>>
       ELSE \E alloc_ok \in AllocOutcomes(total_comp_size) :
            IF alloc_ok
            THEN /\ output' = Alloc(total_comp_size)
                 /\ out_offset' = 0 /\ loop_i' = 0
                 /\ pc' = "c_write"
                 /\ UNCHANGED <<results, heap, pyerr, ret>>
            ELSE /\ results' = FreeAll(results)
                 /\ heap' = [heap EXCEPT !.array_frees = @ + 1]
                 /\ pyerr' = Err("MemoryError", "", -1)
                 /\ ret' = RetNULL /\ pc' = "done"
                 /\ UNCHANGED <<output, out_offset, loop_i>>
    /\ UNCHANGED <<fn, input, num_blocks, block_size, total_comp_size, wvars, dvars, evars, gvars>>

\* (variant: the two header fields written in the other order)
WriteFrame_swapped(buf, off, r) ==
    LET h1 == memcpy(buf, off, U32Bytes(r.comp_size), 4)
        h2 == memcpy(h1, off + 4, U32Bytes(r.orig_size), 4)
    IN memcpy(h2, off + HEADER_SIZE, r.comp_buf, r.comp_size)
\* Lines 109-114: the frame of one block written at offset off.
WriteFrame(buf, off, r) ==
    LET h1 == memcpy(buf, off, U32Bytes(r.orig_size), 4)
        h2 == memcpy(h1, off + 4, U32Bytes(r.comp_size), 4)
    IN memcpy(h2, off + HEADER_SIZE, r.comp_buf, r.comp_size)

\* Lines 108-118: one iteration of the writer loop.
compress_write_frame ==
    /\ fn = "compress_hybrid" /\ pc = "c_write" /\ loop_i < num_blocks
    /\ LET r == results[loop_i + 1]
       IN /\ output' = WriteFrame(output, out_offset, r)
          /\ out_offset' = out_offset + HEADER_SIZE + r.comp_size
          /\ results' = [results EXCEPT ![loop_i + 1].freed = @ + 1]
    /\ loop_i' = loop_i + 1
    /\ UNCHANGED <<fn, pc, input, num_blocks, block_size, total_comp_size, wvars,
                   pyerr, dvars, ret, heap, evars, gvars>>

\* Lines 120-122.
compress_return ==
    /\ fn = "compress_hybrid" /\ pc = "c_write" /\ loop_i = num_blocks
    /\ heap' = [heap EXCEPT !.array_frees = @ + 1, !.view_released = @ + 1]
    /\ ret' = RetBytes(output)
    /\ pc' = "done"
    /\ UNCHANGED <<fn, input, num_blocks, cvars, wvars, pyerr, dvars, evars, owner, ooo>>
    /\ sizes' = [k \in 1..Len(results) |->
                  [orig_size |-> results[k].orig_size, comp_size |-> results[k].comp_size]]

\* ---- decompress_hybrid --------------------------------------------------
\* Lines 138-150: argument parsing and the first allocation of the index.
decompress_entry ==
    /\ fn = "decompress_hybrid" /\ pc = "d_entry"
    /\ \E malloc_ok \in AllocOutcomes(INDEX_CAPACITY) :
         IF malloc_ok
         THEN /\ heap' = [heap EXCEPT !.view_acquired = @ + 1, !.array_allocs = @ + 1]
              /\ in_offset' = 0 /\ num_blocks' = 0 /\ total_uncompressed_size' = 0
              /\ index' = <<>> /\ index_capacity' = INDEX_CAPACITY
              /\ pc' = "d_index"
              /\ UNCHANGED <<pyerr, ret>>
         ELSE /\ heap' = [heap EXCEPT !.view_acquired = @ + 1]
              /\ pyerr' = Err("MemoryError", "", -1)
              /\ ret' = RetNULL /\ pc' = "done"
              /\ UNCHANGED <<in_offset, num_blocks, total_uncompressed_size, index,
                             index_capacity>>
    /\ UNCHANGED <<fn, input, cvars, wvars, out, error_flag, reads, evars, gvars>>

\* Line 153: the loop condition of the index pass.
HasHeader(off, in_size) == off + HEADER_SIZE <= in_size

\* (variant: stored_size not checked against the bytes that remain)
HeaderInvalid_nostored(orig_size, comp_size, off, in_size) ==
    orig_size > MAX_BLOCK_SIZE
\* Line 158.
HeaderInvalid(orig_size, comp_size, off, in_size) ==
    orig_size > MAX_BLOCK_SIZE \/ comp_size > in_size - (off + HEADER_SIZE)

\* (variant: the output offset taken from the input cursor)
IndexEntry_inoff(off, total, orig_size, comp_size) ==
    [in_offset |-> off + HEADER_SIZE, out_offset |-> off,
     orig_size |-> orig_size, comp_size |-> comp_size]
\* Lines 177-180.
IndexEntry(off, total, orig_size, comp_size) ==
    [in_offset |-> off + HEADER_SIZE, out_offset |-> total,
     orig_size |-> orig_size, comp_size |-> comp_size]

\* (variant: the cursor moved past the header only)
NextFrame_header(off, comp_size) == off + HEADER_SIZE
\* Line 183: the cursor moved past the frame.
NextFrame(off, comp_size) == off + HEADER_SIZE + comp_size

\* (variant: the index grown one entry too late)
IndexFull_gt(n, cap) == n > cap
\* Line 165: the index has no room for another entry.
IndexFull(n, cap) == n >= cap

\* Lines 153-186: one iteration of the index pass.
dec_index_step ==
    /\ fn = "decompress_hybrid" /\ pc = "d_index"
    /\ HasHeader(in_offset, Len(input))
    /\ reads' = reads \cup (in_offset..(in_offset + HEADER_SIZE - 1))
    /\ LET orig_size == ReadU32(input, in_offset)
           comp_size == ReadU32(input, in_offset + 4)
           full == IndexFull(num_blocks, index_capacity)
       IN IF HeaderInvalid(orig_size, comp_size, in_offset, Len(input))
          THEN /\ heap' = [heap EXCEPT !.array_frees = @ + 1, !.view_released = @ + 1]
               /\ pyerr' = Err("RuntimeError", "invalid block header", -1)
               /\ ret' = RetNULL /\ pc' = "done"
               /\ UNCHANGED <<index, index_capacity, in_offset,
                              total_uncompressed_size, num_blocks>>
          ELSE \E realloc_ok \in (IF full THEN AllocOutcomes(index_capacity * 2)
                                           ELSE {TRUE}) :
               IF ~realloc_ok
               THEN /\ index_capacity' = index_capacity * 2
                    /\ heap' = [heap EXCEPT !.array_frees = @ + 1,
                                            !.view_released = @ + 1]
                    /\ pyerr' = Err("MemoryError", "", -1)
                    /\ ret' = RetNULL /\ pc' = "done"
                    /\ UNCHANGED <<index, in_offset, total_uncompressed_size, num_blocks>>
               ELSE /\ index_capacity' = IF full THEN index_capacity * 2
                                                 ELSE index_capacity
                    /\ index' = Append(index, IndexEntry(in_offset,
                                    total_uncompressed_size, orig_size, comp_size))
                    /\ in_offset' = NextFrame(in_offset, comp_size)
                    /\ total_uncompressed_size' = total_uncompressed_size + orig_size
                    /\ num_blocks' = num_blocks + 1
                    /\ UNCHANGED <<heap, pyerr, ret, pc>>
    /\ UNCHANGED <<fn, input, cvars, wvars, out, error_flag, evars, gvars>>

\* (variant: only a cursor past the end counts as trailing data)
TrailingData_gt(off, in_size) == off > in_size
\* Line 188.
TrailingData(off, in_size) == off # in_size

\* Lines 188-203: the end-of-input check and the output allocation.
dec_index_done ==
    /\ fn = "decompress_hybrid" /\ pc = "d_index"
    /\ ~HasHeader(in_offset, Len(input))
    /\ IF TrailingData(in_offset, Len(input))
       THEN /\ heap' = [heap EXCEPT !.array_frees = @ + 1, !.view_released = @ + 1]
            /\ pyerr' = Err("RuntimeError", "trailing data", -1)
            /\ ret' = RetNULL /\ pc' = "done"
            /\ UNCHANGED <<out, error_flag, pending, status, owner>>
       ELSE \E alloc_ok \in AllocOutcomes(total_uncompressed_size) :
            IF alloc_ok
            THEN /\ out' = Alloc(total_uncompressed_size)
                 /\ owner' = [k \in 1..total_uncompressed_size |-> {}]
                 /\ error_flag' = 0
                 /\ pending' = 0..(num_blocks - 1)
                 /\ status' = [k \in 1..num_blocks |-> "none"]
                 /\ pc' = "d_loop"
                 /\ UNCHANGED <<heap, pyerr, ret>>
            ELSE /\ heap' = [heap EXCEPT !.array_frees = @ + 1, !.view_released = @ + 1]
                 /\ pyerr' = Err("MemoryError", "", -1)
                 /\ ret' = RetNULL /\ pc' = "done"
                 /\ UNCHANGED <<out, error_flag, pending, status, owner>>
    /\ UNCHANGED <<fn, input, num_blocks, cvars, wpc, wi, wsum, wbuf, in_offset,
                   total_uncompressed_size, index, index_capacity, reads, evars, sizes, ooo>>

\* (variant: a read that may also see the flag raised when it is not)
RacyRead_any(flag) == {flag, 0, 1}
\* Line 207 reads error_flag outside the critical section while other
\* threads may write it: the read returns the value stored, or still 0.
RacyRead(flag) == {flag, 0}

\* Lines 206-207: a worker takes an iteration and skips it when it sees the flag.
dec_start(w) ==
    /\ fn = "decompress_hybrid" /\ pc = "d_loop" /\ wpc[w] = "idle"
    /\ \E i \in Dispatch(pending) :
         /\ pending' = pending \ {i}
         /\ \E seen \in RacyRead(error_flag) :
              IF seen # 0
              THEN /\ status' = [status EXCEPT ![i + 1] = "skipped"]
                   /\ ooo' = (ooo \/ Overtakes(status, i))
                   /\ UNCHANGED <<wpc, wi>>
              ELSE /\ wpc' = [wpc EXCEPT ![w] = "work"]
                   /\ wi' = [wi EXCEPT ![w] = i]
                   /\ UNCHANGED <<status, ooo>>
    /\ UNCHANGED <<fn, pc, input, num_blocks, cvars, wsum, wbuf, pyerr, dvars,
                   ret, heap, evars, sizes, owner>>

\* Line 213: the block was stored raw.
IsRaw(block) == block.comp_size = block.orig_size

\* Lines 209-224 for one block: the bytes written to its output region and
\* whether the sizes matched.
DecodeBlock(block, data) ==
    LET payload == SubSeq(data, block.in_offset + 1, block.in_offset + block.comp_size)
    IN IF IsRaw(block)
       THEN [bytes |-> payload, ok |-> TRUE, how |-> "copied"]
       ELSE LET d == LZ4_decompress_safe(payload, block.orig_size)
            IN [bytes |-> d.data, ok |-> d.size = block.orig_size, how |-> "decoded"]

dec_work(w) ==
    /\ fn = "decompress_hybrid" /\ pc = "d_loop" /\ wpc[w] = "work"
    /\ LET block == index[wi[w] + 1]
           d == DecodeBlock(block, input)
       IN /\ out' = memcpy(out, block.out_offset, d.bytes, Len(d.bytes))
          /\ owner' = [k \in 1..Len(owner) |->
                IF k > block.out_offset /\ k <= block.out_offset + Len(d.bytes)
                THEN owner[k] \cup {wi[w]} ELSE owner[k]]
          /\ IF d.ok
             THEN /\ wpc' = [wpc EXCEPT ![w] = "idle"]
                  /\ wi' = [wi EXCEPT ![w] = 0]
                  /\ status' = [status EXCEPT ![wi[w] + 1] = d.how]
                  /\ ooo' = (ooo \/ Overtakes(status, wi[w]))
             ELSE /\ wpc' = [wpc EXCEPT ![w] = "crit"]
                  /\ UNCHANGED <<status, wi, ooo>>
    /\ UNCHANGED <<fn, pc, input, num_blocks, cvars, pending, wsum, wbuf, pyerr,
                   in_offset, total_uncompressed_size, index, index_capacity,
                   error_flag, reads, ret, heap, evars, sizes>>

\* Lines 225-231.
dec_critical(w) ==
    /\ fn = "decompress_hybrid" /\ pc = "d_loop" /\ wpc[w] = "crit"
    /\ pyerr' = SetErrorOnce(pyerr, Err("RuntimeError", "LZ4 size mismatch", wi[w]))
    /\ error_flag' = 1
    /\ status' = [status EXCEPT ![wi[w] + 1] = "failed"]
    /\ wpc' = [wpc EXCEPT ![w] = "idle"]
    /\ wi' = [wi EXCEPT ![w] = 0]
    /\ UNCHANGED <<fn, pc, input, num_blocks, cvars, pending, wsum, wbuf,
                   in_offset, total_uncompressed_size, index, index_capacity, out,
                   reads, ret, heap, evars, sizes, owner>>
    /\ ooo' = (ooo \/ Overtakes(status, wi[w]))

\* (variant: error_flag ignored after the loop)
DecodeFailed_never(flag) == FALSE
\* Lines 234-244: the barrier ending the parallel loop, the releases and the
\* decision on error_flag.
DecodeFailed(flag) == flag # 0

dec_join ==
    /\ fn = "decompress_hybrid" /\ pc = "d_loop" /\ AllSettled
    /\ heap' = [heap EXCEPT !.array_frees = @ + 1, !.view_released = @ + 1]
    /\ ret' = IF DecodeFailed(error_flag) THEN RetNULL ELSE RetBytes(out)
    /\ pc' = "done"
    /\ UNCHANGED <<fn, input, num_blocks, cvars, wvars, pyerr, dvars, evars, gvars>>

\* ---- the caller ---------------------------------------------------------
\* The byte values inputs are drawn from.
Bytes == {0, 1}
Inputs == SeqsUpTo(Bytes, MaxLen)
\* Block sizes up to MaxBlock, the ceiling and the first value above it;
\* Init keeps the pairs of input and block size that give at most MaxBlocks blocks.
BlockSizes == (0..MaxBlock) \cup {MAX_BLOCK_SIZE, MAX_BLOCK_SIZE + 1}

\* Offsets of the frame headers of a stream, following stored_size from
\* frame to frame as long as a whole frame is there.
RECURSIVE FrameStarts(_, _)
FrameStarts(s, off) ==
    IF off + HEADER_SIZE > Len(s) THEN {}
    ELSE LET c == ReadU32(s, off)
         IN IF off + HEADER_SIZE + c > Len(s) THEN {off}
            ELSE {off} \cup FrameStarts(s, off + HEADER_SIZE + c)

\* Positions (1-based) a caller alters: the low byte of original_size and of
\* stored_size of every frame, and every payload byte.
TamperPositions(s) ==
    LET hs == FrameStarts(s, 0)
    IN {p \in 1..Len(s) : \A h \in hs : p \notin ((h + 2)..(h + 4)) \cup ((h + 6)..(h + 8))}

\* The values an altered byte takes.
TamperBytes == {0, 1, 2, 3}

\* Streams a caller may hand to decompress_hybrid instead of stream s:
\* one byte altered, one byte appended, the last byte dropped, or the
\* high byte of an original_size set so that it exceeds MAX_BLOCK_SIZE.
Tamperings(s) ==
    {[s EXCEPT ![p] = v] : p \in TamperPositions(s), v \in TamperBytes}
    \cup {Append(s, 0)}
    \cup {SubSeq(s, 1, Len(s) - 1) : k \in {1} \cap (1..Len(s))}
    \cup {[s EXCEPT ![h + 4] = 64] : h \in FrameStarts(s, 0)}

Init ==
    /\ fn = "compress_hybrid" /\ pc = "c_entry"
    /\ input \in Inputs
    /\ block_size \in BlockSizes
    /\ block_size > 0 => NumBlocks(Len(input), block_size) <= MaxBlocks
    /\ num_blocks = 0
    /\ results = <<>> /\ total_comp_size = 0
    /\ output = <<>> /\ out_offset = 0 /\ loop_i = 0
    /\ pending = {} /\ status = <<>>
    /\ IdleWorkers
    /\ pyerr = NoErr
    /\ in_offset = 0 /\ total_uncompressed_size = 0
    /\ index = <<>> /\ index_capacity = 0
    /\ out = <<>> /\ error_flag = 0
    /\ ret = Pending
    /\ heap = Heap0
    /\ reads = {}
    /\ orig = input
    /\ tampered = FALSE
    /\ sizes = <<>> /\ owner = <<>> /\ ooo = FALSE

\* The caller passes the stream compress_hybrid returned, or an altered
\* one, to decompress_hybrid: a new call, with the error indicator clear.
call_decompress ==
    /\ fn = "compress_hybrid" /\ pc = "done" /\ ret.kind = "bytes"
    /\ \E s \in {ret.val} \cup Tamperings(ret.val) :
         /\ input' = s
         /\ tampered' = (s # ret.val)
    /\ fn' = "decompress_hybrid" /\ pc' = "d_entry"
    /\ num_blocks' = 0
    /\ results' = <<>> /\ total_comp_size' = 0
    /\ output' = <<>> /\ out_offset' = 0 /\ loop_i' = 0
    /\ status' = <<>>
    /\ pyerr' = NoErr
    /\ ret' = Pending
    /\ heap' = Heap0
    /\ UNCHANGED <<block_size, pending, wpc, wi, wsum, wbuf, dvars, orig, sizes>>
    /\ owner' = <<>> /\ ooo' = FALSE

Next ==
    \/ compress_validate
    \/ compress_setup
    \/ \E w \in Workers : comp_start(w)
    \/ \E w \in Workers : comp_work(w)
    \/ \E w \in Workers : comp_critical(w)
    \/ comp_join
    \/ compress_after_loop
    \/ compress_write_frame
    \/ compress_return
    \/ call_decompress
    \/ decompress_entry
    \/ dec_index_step
    \/ dec_index_done
    \/ \E w \in Workers : dec_start(w)
    \/ \E w \in Workers : dec_work(w)
    \/ \E w \in Workers : dec_critical(w)
    \/ dec_join

Spec == Init /\ [][Next]_vars

\* A step of the calling thread inside a call, and a step of thread w of a team.
CallerStep ==
    \/ compress_validate \/ compress_setup \/ comp_join \/ compress_after_loop
    \/ compress_write_frame \/ compress_return
    \/ decompress_entry \/ dec_index_step \/ dec_index_done \/ dec_join
WorkerStep(w) ==
    \/ comp_start(w) \/ comp_work(w) \/ comp_critical(w)
    \/ dec_start(w) \/ dec_work(w) \/ dec_critical(w)

\* The calling thread keeps running while it is inside a call, and every
\* thread of a team is eventually scheduled: weak fairness of each thread's
\* steps.  The caller is not obliged to call decompress_hybrid.
Fairness == WF_vars(CallerStep) /\ \A w \in Workers : WF_vars(WorkerStep(w))

FairSpec == Init /\ [][Next]_vars /\ Fairness

\* ---- properties ----------------------------------------------------------
InCompress == fn = "compress_hybrid"
InDecompress == fn = "decompress_hybrid"
Returned == pc = "done"
OutOfMemory == pyerr.type = "MemoryError"
Mismatch == pyerr.type = "RuntimeError" /\ pyerr.msg = "LZ4 size mismatch"
ValidBlockSize == block_size >= 1 /\ block_size <= MAX_BLOCK_SIZE

\* C1 (round trip): whenever compress_hybrid was given a valid block size and
\* no allocation failed it returns a stream, and decompress_hybrid of that
\* unaltered stream (no allocation failing) returns exactly the bytes that
\* were compressed, with no error; its index holds as many entries as the
\* encoder had blocks, with the same original and stored sizes, and the
\* accumulated output size is the length of the original input.
C1_RoundTrip ==
    /\ (InCompress /\ Returned /\ ValidBlockSize /\ ~OutOfMemory) => ret.kind = "bytes"
    /\ (InDecompress /\ Returned /\ ~tampered /\ ~OutOfMemory) =>
          /\ ret = RetBytes(orig)
          /\ pyerr = NoErr
          /\ num_blocks = Len(sizes) /\ Len(index) = Len(sizes)
          /\ \A k \in 1..Len(sizes) :
                /\ index[k].orig_size = sizes[k].orig_size
                /\ index[k].comp_size = sizes[k].comp_size
          /\ total_uncompressed_size = Len(orig)

\* A round trip of an input of full length with a compressed and a raw block.
C1_Witness ==
    /\ InDecompress /\ Returned /\ ~tampered /\ ret = RetBytes(orig)
    /\ Len(orig) = MaxLen
    /\ \E j, k \in 1..Len(sizes) :
          /\ sizes[j].comp_size < sizes[j].orig_size
          /\ sizes[k].comp_size = sizes[k].orig_size

\* The run that handles the blocks one after the other in index order:
\* the descriptors, then the frames concatenated in that order.
SeqResults(data, bs) ==
    [k \in 1..NumBlocks(Len(data), bs) |->
        EncodeBlock([ZeroResult EXCEPT !.offset_in = OffsetIn(k - 1, bs),
                                       !.orig_size = OrigSize(k - 1, bs, Len(data))],
                    Alloc(LZ4_compressBound(OrigSize(k - 1, bs, Len(data)))),
                    data, TRUE)]

RECURSIVE SeqFrames(_, _)
SeqFrames(rs, k) ==
    IF k > Len(rs) THEN <<>>
    ELSE U32Bytes(rs[k].orig_size) \o U32Bytes(rs[k].comp_size)
         \o SubSeq(rs[k].comp_buf, 1, rs[k].comp_size) \o SeqFrames(rs, k + 1)

\* The indexed blocks decoded one after the other in index order, stopping
\* at the first size mismatch.
RECURSIVE SeqDecode(_, _, _)
SeqDecode(idx, data, k) ==
    IF k > Len(idx) THEN [ok |-> TRUE, bytes |-> <<>>]
    ELSE LET d == DecodeBlock(idx[k], data)
         IN IF ~d.ok THEN [ok |-> FALSE, bytes |-> <<>>]
            ELSE LET rest == SeqDecode(idx, data, k + 1)
                 IN [ok |-> rest.ok, bytes |-> d.bytes \o rest.bytes]

\* C2 (deterministic output): whatever the interleaving of the block tasks,
\* a stream returned by compress_hybrid is the stream of the sequential
\* in-order run on the same input, and decompress_hybrid, once its parallel
\* loop has run, returns what the sequential in-order run returns: the same
\* bytes, or no data with the size-mismatch error.
C2_Deterministic ==
    /\ (InCompress /\ Returned /\ ret.kind = "bytes") =>
          ret.val = SeqFrames(SeqResults(input, block_size), 1)
    /\ (InDecompress /\ Returned /\ (pyerr = NoErr \/ Mismatch)) =>
          LET ref == SeqDecode(index, input, 1)
          IN IF ref.ok THEN ret = RetBytes(ref.bytes) /\ pyerr = NoErr
             ELSE ret = RetNULL /\ Mismatch

\* A decode of several blocks that settled out of index order and returned data.
C2_Witness ==
    /\ InDecompress /\ Returned /\ ooo /\ num_blocks >= 2 /\ ret.kind = "bytes"
    /\ Len(ret.val) > 0

\* C3 (raw-store fallback): every block the encoder has produced has
\* stored_size <= original_size; stored_size = original_size exactly when
\* the payload is the block's input bytes; a smaller stored_size is the
\* codec's positive result, kept with its bytes; a codec result of
\* original_size or more is stored raw.
C3_RawFallback ==
    InCompress =>
      \A k \in 1..Len(status) :
        status[k] \in {"compressed", "raw"} =>
          LET r == results[k]
              src == SubSeq(input, r.offset_in + 1, r.offset_in + r.orig_size)
              c == LZ4_compress_default(src, LZ4_compressBound(r.orig_size))
              payload == SubSeq(r.comp_buf, 1, r.comp_size)
          IN /\ r.comp_size <= r.orig_size
             /\ (r.comp_size = r.orig_size) <=> (payload = src)
             /\ r.comp_size < r.orig_size =>
                   c.size > 0 /\ c.size < r.orig_size
                   /\ r.comp_size = c.size /\ payload = c.data
             /\ c.size >= r.orig_size => r.comp_size = r.orig_size

\* A block whose compressed form has exactly the original size, stored raw.
C3_Witness ==
    /\ InCompress
    /\ \E k \in 1..Len(status) :
          /\ status[k] = "raw"
          /\ LZ4_compress_default(
                SubSeq(input, results[k].offset_in + 1,
                       results[k].offset_in + results[k].orig_size),
                LZ4_compressBound(results[k].orig_size)).size = results[k].orig_size

Region(e) == e.out_offset..(e.out_offset + e.orig_size - 1)
OutAllocated ==
    InDecompress /\ (pc = "d_loop" \/ (Returned /\ (ret.kind = "bytes" \/ Mismatch)))

\* C4 (index disjointness): the entries of the index follow each other without
\* gap or overlap in the input and in the output; once the output buffer is
\* allocated the output regions of the entries are pairwise disjoint, lie
\* inside the buffer and cover it, and every byte of the buffer has been
\* written by at most one block task, the one whose region holds it.
C4_IndexDisjoint ==
    InDecompress =>
      /\ \A k \in 1..Len(index) :
            /\ index[k].in_offset =
                 (IF k = 1 THEN HEADER_SIZE
                  ELSE index[k - 1].in_offset + index[k - 1].comp_size + HEADER_SIZE)
            /\ index[k].out_offset =
                 (IF k = 1 THEN 0 ELSE index[k - 1].out_offset + index[k - 1].orig_size)
      /\ OutAllocated =>
            /\ \A j, k \in 1..Len(index) :
                  j # k => Region(index[j]) \cap Region(index[k]) = {}
            /\ \A k \in 1..Len(index) : Region(index[k]) \subseteq 0..(Len(out) - 1)
            /\ UNION {Region(index[k]) : k \in 1..Len(index)} = 0..(Len(out) - 1)
            /\ Len(owner) = Len(out)
            /\ \A p \in 1..Len(owner) :
                  /\ Cardinality(owner[p]) <= 1
                  /\ \A i \in owner[p] : (p - 1) \in Region(index[i + 1])

\* Two block tasks in flight at once, each with a non-empty output region.
C4_Witness ==
    /\ InDecompress /\ pc = "d_loop"
    /\ \E v, w \in Workers :
          /\ v # w /\ wpc[v] = "work" /\ wpc[w] = "work"
          /\ index[wi[v] + 1].orig_size > 0 /\ index[wi[w] + 1].orig_size > 0

\* C5 (trailing garbage): when the index pass has stopped with the cursor not
\* at the end of the input, decompress_hybrid has returned no data with the
\* trailing-data error, the output buffer was never allocated and no block
\* was decoded; the parallel loop is only ever entered with the cursor at the end.
C5_TrailingGarbage ==
    InDecompress =>
      /\ (Returned /\ heap.array_allocs = 1 /\ ~HasHeader(in_offset, Len(input))
            /\ in_offset # Len(input)) =>
            /\ ret = RetNULL
            /\ pyerr = Err("RuntimeError", "trailing data", -1)
            /\ out = <<>> /\ owner = <<>> /\ status = <<>>
      /\ pc = "d_loop" => in_offset = Len(input)

\* A stream of at least one whole frame followed by exactly one more byte.
C5_Witness ==
    /\ InDecompress /\ Returned /\ pyerr.msg = "trailing data"
    /\ Len(index) >= 1 /\ Len(input) = in_offset + 1

EntryValid(e) ==
    e.orig_size <= MAX_BLOCK_SIZE /\ e.in_offset + e.comp_size <= Len(input)

\* C6 (corruption detection): no frame whose stored_size exceeds the input
\* left after its header, or whose original_size exceeds MAX_BLOCK_SIZE, is
\* ever recorded in the index; when the header at the cursor is such a frame
\* the call has returned no data with the invalid-header error, the cursor
\* still at that frame, no entry for it, and no output buffer allocated.
C6_Corruption ==
    InDecompress =>
      /\ \A k \in 1..Len(index) : EntryValid(index[k])
      /\ (pc # "d_entry" /\ pc # "d_index" /\ heap.array_allocs = 1
            /\ HasHeader(in_offset, Len(input))
            /\ (ReadU32(input, in_offset) > MAX_BLOCK_SIZE
                \/ ReadU32(input, in_offset + 4) > Len(input) - (in_offset + HEADER_SIZE))) =>
            /\ Returned /\ ret = RetNULL
            /\ pyerr = Err("RuntimeError", "invalid block header", -1)
            /\ Len(index) = num_blocks
            /\ \A k \in 1..Len(index) : index[k].in_offset <= in_offset
            /\ out = <<>> /\ status = <<>>

\* A frame after the first whose stored_size exceeds what is left of the input.
C6_Witness ==
    /\ InDecompress /\ Returned /\ pyerr.msg = "invalid block header"
    /\ Len(index) >= 1
    /\ ReadU32(input, in_offset) <= MAX_BLOCK_SIZE
    /\ ReadU32(input, in_offset + 4) > Len(input) - (in_offset + HEADER_SIZE)

\* C7 (codec mismatch): when decompress_hybrid has returned and a block that
\* was processed decodes to a size other than its original_size, no data is
\* returned and the size-mismatch error is set with error_flag raised; a
\* result exists only once every block task has finished or skipped; and
\* returned data has every byte written.
C7_CodecMismatch ==
    InDecompress =>
      /\ (Returned /\ \E k \in 1..Len(status) :
              status[k] # "skipped" /\ ~DecodeBlock(index[k], input).ok) =>
            ret = RetNULL /\ Mismatch /\ error_flag = 1
      /\ pc = "d_loop" => ret = Pending
      /\ (ret.kind # "pending" /\ status # <<>>) =>
            AllSettled /\ \A k \in 1..Len(status) : status[k] # "none"
      /\ ret.kind = "bytes" => \A p \in 1..Len(ret.val) : ret.val[p] # UNINIT

\* A failed decode in which another block had already written its bytes.
C7_Witness ==
    /\ InDecompress /\ Returned /\ ret = RetNULL
    /\ \E j, k \in 1..Len(status) :
          /\ status[j] = "failed"
          /\ status[k] \in {"copied", "decoded"} /\ index[k].orig_size > 0
    /\ \E p \in 1..Len(out) : out[p] # UNINIT

\* C8 (allocation failure in the encoder): once the scratch allocation of a
\* block has failed the MemoryError is pending, no output is ever allocated
\* or written, and compress_hybrid returns no data; every other block has
\* still been handled by the time the loop is left.
C8_EncodeAllocFailure ==
    InCompress =>
      /\ (\E k \in 1..Len(status) : status[k] = "failed") =>
            /\ OutOfMemory
            /\ output = <<>> /\ pc # "c_write" /\ ret.kind # "bytes"
            /\ Returned => ret = RetNULL
      /\ pc \in {"c_after", "c_write"} \/ (Returned /\ status # <<>>) =>
            \A k \in 1..Len(status) : status[k] \in {"compressed", "raw", "failed"}

\* A failed encode in which other blocks were compressed or stored.
C8_Witness ==
    /\ InCompress /\ Returned /\ ret = RetNULL
    /\ \E j, k \in 1..Len(status) :
          status[j] = "failed" /\ status[k] \in {"compressed", "raw"}

C9_State == Returned => ((ret = RetNULL) <=> PyErr_Occurred)
C9_Step ==
    /\ PyErr_Occurred => pyerr' = pyerr
    /\ error_flag = 1 => error_flag' = 1
    /\ (~PyErr_Occurred /\ pyerr'.type # "none" /\ pc \in {"c_loop", "d_loop"}) =>
          /\ \A k \in 1..Len(status) : status[k] # "failed"
          /\ pyerr'.by \in 0..(num_blocks - 1)
          /\ status'[pyerr'.by + 1] = "failed"

\* C9 (write-once error signal): a pending error is never replaced or
\* cleared and error_flag never goes back to 0; the error set during a
\* parallel loop is that of the first failing task to enter the critical
\* section; a call returns no data exactly when one error is pending.
C9_WriteOnce == []C9_State /\ [][C9_Step]_vars

\* Two blocks failed, and the pending error is the one of the higher block.
C9_Witness ==
    /\ Returned /\ PyErr_Occurred
    /\ \E j, k \in 1..Len(status) :
          j < k /\ status[j] = "failed" /\ status[k] = "failed" /\ pyerr.by = k - 1

\* C10 (configuration validation): with block_size 0 or above
\* MAX_BLOCK_SIZE compress_hybrid returns no data with a ValueError and has
\* neither counted blocks nor allocated or filled a descriptor; with
\* block_size in 1..MAX_BLOCK_SIZE no ValueError is raised and the call
\* returns a stream unless an allocation failed.
C10_ConfigValidation ==
    InCompress =>
      /\ ((block_size = 0 \/ block_size > MAX_BLOCK_SIZE) /\ pc # "c_entry") =>
            /\ Returned /\ ret = RetNULL /\ pyerr.type = "ValueError"
            /\ num_blocks = 0 /\ results = <<>> /\ status = <<>>
            /\ heap.array_allocs = 0 /\ output = <<>>
      /\ ValidBlockSize =>
            /\ pyerr.type # "ValueError"
            /\ pc # "c_entry" => (pc = "c_setup" \/ num_blocks = NumBlocks(Len(input), block_size))
            /\ (Returned /\ ~OutOfMemory) => ret.kind = "bytes"

\* The first block size above the ceiling, rejected.
C10_Witness ==
    /\ InCompress /\ Returned /\ block_size = MAX_BLOCK_SIZE + 1
    /\ ret = RetNULL /\ pyerr.type = "ValueError"

\* C11 (empty input): compress_hybrid of an input of length 0 with a valid
\* block size, no allocation failing, counts no block and returns the stream
\* of 0 bytes with no error; decompress_hybrid of the stream of 0 bytes, no
\* allocation failing, indexes no frame and returns the buffer of 0 bytes
\* with no error.
C11_EmptyInput ==
    /\ (InCompress /\ Returned /\ Len(input) = 0 /\ ValidBlockSize /\ ~OutOfMemory) =>
          /\ ret = RetBytes(<<>>) /\ pyerr = NoErr
          /\ num_blocks = 0 /\ results = <<>> /\ total_comp_size = 0
    /\ (InDecompress /\ Returned /\ Len(input) = 0 /\ ~OutOfMemory) =>
          /\ ret = RetBytes(<<>>) /\ pyerr = NoErr
          /\ num_blocks = 0 /\ index = <<>> /\ total_uncompressed_size = 0

\* The empty input compressed and its empty stream decoded to the empty buffer.
C11_Witness ==
    /\ InDecompress /\ Returned /\ orig = <<>> /\ input = <<>> /\ ~tampered
    /\ ret = RetBytes(<<>>) /\ pyerr = NoErr

\* The descriptors of the blocks whose range the loop has recorded.
Recorded(k) == status[k] # "none"
LoopLeft == pc \in {"c_after", "c_write"} \/ (Returned /\ status # <<>>)

\* C12 (partition): for a valid block size S and an input of N bytes the
\* encoder counts ceil(N / S) blocks; block i is recorded with the range
\* [i*S, min((i+1)*S, N)), which is not empty; every block but the last has
\* size S and the last has size S when S divides N and N mod S otherwise;
\* when the loop is left every block has been handled and the ranges follow
\* each other from 0 to N without gap or overlap.
C12_Partition ==
    (InCompress /\ ValidBlockSize /\ pc # "c_entry" /\ pc # "c_setup") =>
      LET N == Len(input)
          S == block_size
      IN /\ num_blocks * S >= N /\ (num_blocks - 1) * S < N
         /\ heap.array_allocs = 1 =>
               /\ Len(results) = num_blocks /\ Len(status) = num_blocks
               /\ \A k \in 1..num_blocks :
                     Recorded(k) =>
                       LET r == results[k]
                           hi == IF k * S <= N THEN k * S ELSE N
                       IN /\ r.offset_in = (k - 1) * S
                          /\ r.offset_in + r.orig_size = hi
                          /\ r.orig_size >= 1 /\ r.orig_size <= S
                          /\ k < num_blocks => r.orig_size = S
                          /\ k = num_blocks =>
                                r.orig_size = (IF N % S = 0 THEN S ELSE N % S)
               /\ LoopLeft =>
                     /\ \A k \in 1..num_blocks : Recorded(k)
                     /\ \A k \in 1..num_blocks :
                           results[k].offset_in =
                             (IF k = 1 THEN 0
                              ELSE results[k - 1].offset_in + results[k - 1].orig_size)
                     /\ num_blocks > 0 =>
                           results[num_blocks].offset_in + results[num_blocks].orig_size = N
                     /\ num_blocks = 0 => N = 0

\* An input that its block size does not divide: several blocks, the last shorter.
C12_Witness ==
    /\ InCompress /\ Returned /\ ret.kind = "bytes"
    /\ num_blocks >= 2 /\ Len(input) % block_size # 0
    /\ results[num_blocks].orig_size < block_size
    /\ results[1].orig_size = block_size

\* Sum over the first n descriptors of stored size plus header.
RECURSIVE FramesSize(_, _)
FramesSize(rs, n) ==
    IF n = 0 THEN 0 ELSE rs[n].comp_size + HEADER_SIZE + FramesSize(rs, n - 1)

\* C13 (writer sizing): when the parallel loop of a successful encode has
\* been joined, total_comp_size is the sum over all blocks of stored size
\* plus HEADER_SIZE, whatever the interleaving, and is at most
\* N + num_blocks * HEADER_SIZE; the output buffer has exactly that size from
\* its allocation on; frame i is written at the sum of the sizes of the
\* frames before it; and the cursor is at the end of the buffer on return.
C13_WriterSizing ==
    (InCompress /\ LoopLeft /\ \A k \in 1..Len(status) : status[k] # "failed") =>
      /\ total_comp_size = FramesSize(results, num_blocks)
      /\ total_comp_size <= Len(input) + num_blocks * HEADER_SIZE
      /\ (pc = "c_write" \/ ret.kind = "bytes") =>
            /\ Len(output) = total_comp_size
            /\ out_offset = FramesSize(results, loop_i)
            /\ out_offset <= Len(output)
            /\ \A p \in 1..Len(output) : (output[p] # UNINIT) <=> (p <= out_offset)
      /\ ret.kind = "bytes" =>
            /\ loop_i = num_blocks /\ out_offset = Len(output)
            /\ Len(ret.val) = total_comp_size

\* An encode of several blocks, settled out of order by different threads,
\* whose stream has reached the bound N + num_blocks * HEADER_SIZE.
C13_Witness ==
    /\ InCompress /\ Returned /\ ret.kind = "bytes" /\ ooo
    /\ num_blocks >= 2
    /\ total_comp_size = Len(input) + num_blocks * HEADER_SIZE

\* C14 (exact-sized block buffers): once the encoder has finished a block,
\* on the kept-compression path and on the raw-store path, the payload
\* buffer the descriptor retains has capacity exactly stored_size.
C14_ExactSized ==
    InCompress =>
      \A k \in 1..Len(status) :
        status[k] \in {"compressed", "raw"} =>
          Len(results[k].comp_buf) = results[k].comp_size

\* The input offsets of the headers and of the payloads of the indexed frames.
HeaderBytes(idx) ==
    UNION {(idx[k].in_offset - HEADER_SIZE)..(idx[k].in_offset - 1) : k \in 1..Len(idx)}
PayloadBytes(idx) ==
    UNION {idx[k].in_offset..(idx[k].in_offset + idx[k].comp_size - 1) : k \in 1..Len(idx)}
IndexPassDone ==
    /\ ~HasHeader(in_offset, Len(input)) /\ in_offset = Len(input)
    /\ Len(index) = num_blocks
    /\ \A k \in 1..Len(index) : EntryValid(index[k])
    /\ HeaderBytes(index) \cup PayloadBytes(index) = 0..(Len(input) - 1)

C15_State ==
    InDecompress =>
      /\ reads \cap PayloadBytes(index) = {}
      /\ reads \subseteq HeaderBytes(index) \cup (in_offset..(in_offset + HEADER_SIZE - 1))
      /\ reads \subseteq 0..(Len(input) - 1)
      /\ (pc \in {"d_index", "d_loop"} \/ ret.kind = "bytes" \/ Mismatch) =>
            reads = HeaderBytes(index)
      /\ (pc = "d_loop" \/ out # <<>> \/ status # <<>> \/ ret.kind = "bytes") =>
            /\ IndexPassDone
            /\ Len(out) = total_uncompressed_size
            /\ total_uncompressed_size = SumTo([k \in 1..Len(index) |-> index[k].orig_size],
                                               Len(index))
      /\ pc \in {"d_entry", "d_index"} =>
            out = <<>> /\ status = <<>> /\ \A w \in Workers : wpc[w] = "idle"
C15_Step ==
    (InDecompress /\ (out' # out \/ wpc' # wpc \/ status' # status)) =>
        /\ IndexPassDone /\ IndexPassDone'
        /\ index' = index /\ reads' = reads /\ in_offset' = in_offset

\* C15 (index before decode): in decompress_hybrid the output buffer is
\* allocated, and a block task starts, only when the index pass has recorded
\* every frame of the stream with a valid header and the cursor is at the end
\* of the input, and the index does not change afterwards; the index pass
\* reads the header bytes of the frames and no payload byte; the output
\* buffer has exactly the size of the sum of the original sizes indexed.
C15_IndexBeforeDecode == []C15_State /\ [][C15_Step]_vars

\* The parallel loop entered for a stream of several frames with payloads,
\* the index pass having read all headers and nothing else.
C15_Witness ==
    /\ InDecompress /\ pc = "d_loop" /\ Len(index) >= 2
    /\ \E w \in Workers : wpc[w] = "work"
    /\ \A k \in 1..Len(index) : index[k].comp_size > 0
    /\ Cardinality(reads) = HEADER_SIZE * Len(index)
    /\ Len(out) = total_uncompressed_size /\ Len(out) > 0

InLoop == pc \in {"c_loop", "d_loop"}
Settled(k) == status[k] # "none"
CompleteOutput == ret.kind = "bytes" /\ \A p \in 1..Len(ret.val) : ret.val[p] # UNINIT

C16_State ==
    /\ InLoop => ret = Pending
    /\ (LoopLeft \/ (InDecompress /\ Returned /\ status # <<>>)) =>
          \A k \in 1..Len(status) : Settled(k)
    /\ (InCompress /\ LoopLeft) =>
          \A k \in 1..Len(status) : status[k] \in {"compressed", "raw", "failed"}
    /\ Returned => (CompleteOutput /\ ~PyErr_Occurred) \/ (ret = RetNULL /\ PyErr_Occurred)
C16_Step ==
    /\ (InLoop /\ pc' # pc) =>
          AllSettled /\ pc' = (IF pc = "c_loop" THEN "c_after" ELSE "done")
    /\ (InLoop /\ ret' # ret) => AllSettled
    /\ \A k \in 1..Len(status) :
          (InLoop /\ pc' = pc /\ Settled(k)) => status'[k] = status[k]

\* C16 (progress to the join): with every thread scheduled fairly, every
\* call that was entered returns, with a completely written output or with
\* an error pending, also when blocks have failed; a parallel loop is left
\* only through its join, with every block task finished or skipped, and
\* inside a loop no result is produced; the encoder handles every block
\* whose scratch allocation succeeded even when another block's failed.
C16_Progress ==
    /\ []C16_State
    /\ [][C16_Step]_vars
    /\ (~Returned) ~> Returned

\* A decode that was joined after one block failed, another was skipped and
\* a third had written its bytes.
C16_Witness ==
    /\ InDecompress /\ Returned /\ ret = RetNULL
    /\ \E i, j, k \in 1..Len(status) :
          /\ status[i] = "failed" /\ status[j] = "skipped"
          /\ status[k] \in {"copied", "decoded"}

\* C17 (descriptor ownership): when compress_hybrid has returned after the
\* descriptor array was allocated, the array has been freed exactly once and
\* so has every payload buffer a descriptor held; when decompress_hybrid has
\* returned after the index was allocated, the index has been freed exactly
\* once; before the return nothing is freed twice, and no payload buffer is
\* freed while the array still is to be written from it.
C17_DescriptorOwnership ==
    /\ heap.array_frees <= heap.array_allocs /\ heap.array_allocs <= 1
    /\ \A k \in 1..Len(results) :
          /\ results[k].freed <= 1
          /\ (pc = "c_write" /\ k > loop_i) => results[k].freed = 0
    /\ (Returned /\ heap.array_allocs = 1) =>
          /\ heap.array_frees = 1
          /\ InCompress =>
                \A k \in 1..Len(results) :
                    results[k].allocated => results[k].freed = 1

\* An encode that failed after the loop with payload buffers allocated, all freed.
C17_Witness ==
    /\ InCompress /\ Returned /\ ret = RetNULL /\ heap.array_frees = 1
    /\ \E j, k \in 1..Len(results) :
          /\ results[j].allocated /\ results[j].freed = 1
          /\ ~results[k].allocated

Processed(k) == status[k] \in {"copied", "decoded"}

C18_State ==
    InDecompress =>
      /\ (\E k \in 1..Len(status) : status[k] = "skipped") => error_flag = 1
      /\ error_flag = 1 => \E k \in 1..Len(status) : status[k] = "failed"
      /\ \A k \in 1..Len(status) :
            /\ status[k] = "copied" =>
                  /\ IsRaw(index[k])
                  /\ \A p \in Region(index[k]) :
                        out[p + 1] = input[index[k].in_offset + (p - index[k].out_offset) + 1]
            /\ status[k] = "decoded" =>
                  /\ ~IsRaw(index[k])
                  /\ LZ4_decompress_safe(
                        SubSeq(input, index[k].in_offset + 1,
                               index[k].in_offset + index[k].comp_size),
                        index[k].orig_size).size = index[k].orig_size
            /\ Processed(k) =>
                  \A p \in Region(index[k]) : out[p + 1] # UNINIT /\ owner[p + 1] = {k - 1}
      /\ ret.kind = "bytes" =>
            /\ Len(status) = num_blocks /\ Len(index) = num_blocks
            /\ \A k \in 1..Len(status) : Processed(k)
            /\ error_flag = 0
            /\ \A p \in 1..Len(ret.val) : ret.val[p] # UNINIT /\ Cardinality(owner[p]) = 1
C18_Step ==
    InDecompress =>
      /\ error_flag = 1 => error_flag' = 1
      /\ \A k \in 1..Len(status) :
            /\ (status[k] # "none" /\ pc' = pc) => status'[k] = status[k]
            /\ (status[k] = "none" /\ pc' = pc /\ status'[k] = "skipped") => error_flag = 1

\* C18 (skip only after error): a block task of the decode loop is skipped
\* only in a state in which error_flag is already 1, the flag is raised only
\* by a failed block and never goes back to 0, and a block once settled is
\* not handled again; so whenever decompress_hybrid returns a buffer no block
\* was skipped or failed, every indexed block was copied (stored size equal
\* to original size) or decompressed to exactly its original size, and every
\* byte of the buffer was written, by the one task whose region holds it.
C18_SkipOnlyAfterError == []C18_State /\ [][C18_Step]_vars

\* A decode in which a block was skipped by a task started after the failure
\* of another, while a third block had already been processed.
C18_Witness ==
    /\ InDecompress /\ pc = "d_loop" /\ error_flag = 1
    /\ \E i, j \in 1..Len(status) :
          /\ status[i] = "failed" /\ status[j] = "skipped"
    /\ \E k \in 1..Len(status) : Processed(k) /\ index[k].orig_size > 0

\* C19 (input buffer release): whenever compress_hybrid or decompress_hybrid
\* has returned after the view of the input buffer was acquired, the view
\* has been released exactly once.
C19_ViewReleased ==
    /\ heap.view_released <= heap.view_acquired
    /\ (Returned /\ heap.view_acquired = 1) => heap.view_released = 1

C20_State ==
    InDecompress =>
      /\ reads \subseteq 0..(Len(input) - 1)
      /\ in_offset <= Len(input)
      /\ Len(index) = num_blocks
      /\ (pc # "d_entry" /\ heap.array_allocs = 1) =>
            /\ num_blocks <= index_capacity /\ index_capacity >= INDEX_CAPACITY
      /\ \A k \in 1..Len(index) :
            /\ index[k].in_offset >= HEADER_SIZE
            /\ index[k].in_offset + index[k].comp_size <= Len(input)
            /\ index[k].in_offset + index[k].comp_size <= in_offset
      /\ num_blocks * HEADER_SIZE <= in_offset
      /\ num_blocks * HEADER_SIZE <= Len(input)
C20_Step ==
    (InDecompress /\ pc = "d_index") =>
      /\ in_offset' # in_offset =>
            /\ in_offset' >= in_offset + HEADER_SIZE
            /\ Len(index') = Len(index) + 1
            /\ Len(index) < index_capacity'
            /\ reads' \ reads = in_offset..(in_offset + HEADER_SIZE - 1)
      /\ reads' # reads =>
            /\ reads \cap (in_offset..(Len(input) - 1)) = {}
            /\ Len(input) - (in_offset + HEADER_SIZE) >= 0
      /\ index_capacity' # index_capacity =>
            /\ num_blocks = index_capacity /\ index_capacity' = 2 * index_capacity
      /\ \A k \in 1..Len(index) : index'[k] = index[k]

\* C20 (index pass bounds): in every iteration of the index pass the 8
\* header bytes read lie inside the input and were not read before, the
\* remaining-bytes subtraction has a result of 0 or more, the entry is
\* written at a position below the index capacity, which doubles exactly
\* when the index is full, and the cursor advances by at least HEADER_SIZE
\* without passing the end of the input; every recorded payload range lies
\* inside the input and before the cursor; so the index never holds more
\* than len(input) / HEADER_SIZE entries.
C20_IndexPassBounds == []C20_State /\ [][C20_Step]_vars

\* An index that was full and grew, the third entry written above the
\* capacity it started with.
C20_Witness ==
    /\ InDecompress /\ pc = "d_index"
    /\ index_capacity = 2 * INDEX_CAPACITY /\ Len(index) = INDEX_CAPACITY + 1
    /\ in_offset = Len(input)

====
